---- MODULE Spec2Model ----
\* The event registry of vue-event-registry (src/src/event-registry.js, the
\* factory createEventRegistry of lines 124-353): the handler map, the history
\* log, the unique (latched) event mode, the wait/timeout promises, the
\* native subscriptions and the snapshots history() returns.
\*
\* One registry instance is modelled. Its operations are pure operators over a
\* record s of the registry's data (registry map, handler arrays, history,
\* waits, native adapters and the targets' listener lists, the handlers
\* invoked so far in the running operation); the actions
\* apply one whole operation each. Handler arrays are JavaScript objects that
\* closures keep alive after clear() drops them from the map, so they live in a
\* heap (arrays) and the map holds their ids.
EXTENDS Integers, Sequences, FiniteSets, TLC

\* ---------------------------------------------------------------- bounds
\* The number of operations performed on the registry: calls of its functions,
\* calls of the unregister functions it returned, timers firing.
MaxCalls == 4

\* ---------------------------------------------------------------- inputs
\* Valid event names.
Events == {"e1", "e2"}
\* The empty string, which _validateEvent rejects.
EmptyName == ""
\* A token standing for an event argument that is not a string (typeof event
\* !== 'string'), e.g. a number.
NonString == "#number"
NonStrings == {NonString}
\* JavaScript values that occur: emitted values, undefined, null.
Values == {"a", "b"}
Undefined == "undefined"
Null == "null"
\* An index of map() that was skipped leaves a hole in the returned array.
Hole == "<empty>"

\* The event targets native() subscribes on: two unrelated DOM objects (neither
\* is an ancestor of the other, so a dispatch on one does not reach the other).
Targets == {"t1", "t2"}
\* The Event objects dispatched on the targets.
DomEvents == {"click1", "click2"}
\* The boolean true where the code passes it in the place of an argument
\* array: a value that is no array of emitted values.
True == <<"#true">>

\* Handlers are function references: functions of the registry's callers, the
\* handler closure of a wait call, the adapter (_handler) of a native
\* registration, and (in Records of emit) the handler array.
UserHandler(n) == [kind |-> "user", id |-> n]
WaitHandler(i) == [kind |-> "wait", id |-> i]
NativeAdapter(n) == [kind |-> "native", id |-> n]
ArrayRef(a) == [kind |-> "array", id |-> a]
NoHandler == [kind |-> "undefined", id |-> 0]
\* A handler argument that is not callable.
NotAFunction == [kind |-> "notfn", id |-> 0]
UserHandlers == {UserHandler(1), UserHandler(2)}
\* Functions of the registry's callers that call back into the registry when
\* they are invoked: one calls emit('e1', 'b'), one calls on('e1', H1).
EmittingHandler == [kind |-> "emits", id |-> 3]
RegisteringHandler == [kind |-> "registers", id |-> 4]
\* What a caller's handler returns: a value of its own, whatever the arguments.
HandlerReturn(h) == IF h.id = 1 THEN "r1" ELSE "r2"

\* The values on() returns: an unregister closure over (array, event, handler),
\* or a plain value (undefined, or the handler's return value).
Closure(arr, event, handler) ==
    [kind |-> "function", arr |-> arr, event |-> event, handler |-> handler, value |-> Undefined]
Plain(v) ==
    [kind |-> "value", arr |-> 0, event |-> "", handler |-> NoHandler, value |-> v]
\* The function native() returns: a closure over the adapter it subscribed.
NativeClosure(n, event) ==
    [kind |-> "function", arr |-> 0, event |-> event, handler |-> NativeAdapter(n),
     value |-> Undefined]

VARIABLES
    uniqueEvents,   \* config.uniqueEvents, fixed at creation
    registry,       \* Map event -> handler array (0: no key for the event)
    arrays,         \* heap of handler arrays, by id
    history,        \* the history array of Records
    waits,          \* the wait() calls made: promise, options, removeHandler, timer
    regs,           \* the unregister closures on() returned to callers
    last,           \* the last call of on or emit and what it did (observer)
    first,          \* per event, the first call of emit made for it (observer)
    calls,          \* the number of operations performed so far
    adapters,       \* the native registrations made: event, handler, target
    listeners,      \* per target, the adapters subscribed with addEventListener
    snapshot        \* the array a call of history() returned to its caller

vars == <<uniqueEvents, registry, arrays, history, waits, regs, last, first, calls,
          adapters, listeners, snapshot>>

\* The registry's data as one record, threaded through the operations.
Data == [registry |-> registry, arrays |-> arrays, history |-> history,
         waits |-> waits, adapters |-> adapters, listeners |-> listeners,
         invoked |-> <<>>]

Range(seq) == {seq[k] : k \in DOMAIN seq}

\* ------------------------------------------------------------ the registry
\* _eventHandlers: the event's handler array, created empty and stored under
\* the event when there is none.
EventHandlers(s, event) ==
    IF s.registry[event] # 0
    THEN [s |-> s, arr |-> s.registry[event]]
    ELSE LET id == Len(s.arrays) + 1
         IN [s |-> [s EXCEPT !.arrays = Append(@, <<>>), !.registry[event] = id],
             arr |-> id]

\* A variant of the emit-Record test that ignores the native flag.
IsEmit_AnyChannel(record, event, native) ==
    record.action = "emit" /\ record.event = event

\* The test of _eventWasEmitted and _emittedEvents: an emit Record of the event
\* in the channel asked for.
IsEmit(record, event, native) ==
    record.action = "emit" /\ record.native = native /\ record.event = event

\* A variant of _eventWasEmitted that takes an event as emitted from its
\* second emit Record on.
EventWasEmitted_FromSecond(s, event, native) ==
    Len(SelectSeq(s.history, LAMBDA record : IsEmit(record, event, native))) >= 2

\* _eventWasEmitted
EventWasEmitted(s, event, native) ==
    \E i \in DOMAIN s.history : IsEmit(s.history[i], event, native)

\* _emittedEvents
EmittedEvents(s, event, native) ==
    SelectSeq(s.history, LAMBDA record : IsEmit(record, event, native))

\* A variant of _pushHistory that puts the Record at the front (unshift).
PushHistory_AtFront(s, action, event, handler, args, native) ==
    [s EXCEPT !.history = <<[action |-> action, event |-> event,
                             handler |-> handler, args |-> args,
                             native |-> native]>> \o @]

\* _pushHistory
PushHistory(s, action, event, handler, args, native) ==
    [s EXCEPT !.history = Append(@, [action |-> action, event |-> event,
                                     handler |-> handler, args |-> args,
                                     native |-> native])]

\* Array.prototype.findIndex(h => h === handler), 1-based; 0 for -1.
FindIndex(seq, handler) ==
    IF \E i \in DOMAIN seq : seq[i] = handler
    THEN CHOOSE i \in DOMAIN seq :
            seq[i] = handler /\ \A j \in 1..(i - 1) : seq[j] # handler
    ELSE 0

\* Array.prototype.splice(index, 1)
Splice(seq, index) == SubSeq(seq, 1, index - 1) \o SubSeq(seq, index + 1, Len(seq))

\* A variant of the closure that records the removal but leaves the handler in
\* the array.
RemoveHandler_KeepsHandler(s, c) ==
    LET index == FindIndex(s.arrays[c.arr], c.handler)
    IN IF index > 0
       THEN PushHistory(s, "unregister", c.event, c.handler, <<>>, FALSE)
       ELSE s

\* The closure _registerHandler returns: removes the first occurrence of the
\* handler from the array it was registered in, and records it.
RemoveHandler(s, c) ==
    LET index == FindIndex(s.arrays[c.arr], c.handler)
    IN IF index > 0
       THEN PushHistory([s EXCEPT !.arrays[c.arr] = Splice(@, index)],
                        "unregister", c.event, c.handler, <<>>, FALSE)
       ELSE s

\* _registerHandler
RegisterHandler(s, arr, event, handler) ==
    [s |-> PushHistory([s EXCEPT !.arrays[arr] = Append(@, handler)],
                       "on", event, handler, <<>>, FALSE),
     ret |-> Closure(arr, event, handler)]

\* _validateEvent
ValidateEvent(event) == event \notin NonStrings /\ event # EmptyName

\* resolve(...args) of a promise: the promise takes the first argument passed
\* (undefined when there is none) and only while it is pending.
Resolve(s, i, args) ==
    IF s.waits[i].state = "pending"
    THEN [s EXCEPT !.waits[i].state = "resolved",
                   !.waits[i].value = IF args = <<>> THEN Undefined ELSE Head(args)]
    ELSE s

\* reject(reason)
Reject(s, i, reason) ==
    IF s.waits[i].state = "pending"
    THEN [s EXCEPT !.waits[i].state = "rejected", !.waits[i].value = reason]
    ELSE s

\* The handler closure of wait(): removes its own registration when
\* removeHandler holds a function, then resolves the promise.
WaitHandlerBody(s, i, args) ==
    LET rh == s.waits[i].removeHandler
        s1 == IF rh.kind = "function" THEN RemoveHandler(s, rh) ELSE s
    IN Resolve(s1, i, args)

\* A handler may call emit and on, which call handlers.
RECURSIVE Emit(_, _, _)
RECURSIVE On(_, _, _)

\* handler(...args): a call of a handler, with its return value.
Call(s, handler, args) ==
    LET s1 == [s EXCEPT !.invoked = Append(@, [handler |-> handler, args |-> args])]
    IN CASE handler.kind = "wait" ->
              [s |-> WaitHandlerBody(s1, handler.id, args), ret |-> Undefined]
         [] handler.kind = "emits" ->
              [s |-> Emit(s1, "e1", <<"b">>).s, ret |-> HandlerReturn(handler)]
         [] handler.kind = "registers" ->
              [s |-> On(s1, "e1", UserHandler(1)).s, ret |-> HandlerReturn(handler)]
         [] OTHER -> [s |-> s1, ret |-> HandlerReturn(handler)]

\* A variant of on that registers the handler (array and history) before it
\* replays a latched unique event to it.
On_RegistersBeforeReplay(s, event, handler) ==
    IF ~ValidateEvent(event) THEN [s |-> s, ret |-> Plain(Undefined)]
    ELSE IF handler.kind = "notfn" THEN [s |-> s, ret |-> Plain(Undefined)]
    ELSE LET eh == EventHandlers(s, event)
             reg == RegisterHandler(eh.s, eh.arr, event, handler)
             emitted == EmittedEvents(reg.s, event, FALSE)
         IN IF uniqueEvents /\ Len(emitted) # 0
            THEN LET c == Call(reg.s, handler, emitted[Len(emitted)].args)
                 IN [s |-> c.s, ret |-> Plain(c.ret)]
            ELSE reg

\* on
On(s, event, handler) ==
    IF ~ValidateEvent(event) THEN [s |-> s, ret |-> Plain(Undefined)]
    ELSE IF handler.kind = "notfn" THEN [s |-> s, ret |-> Plain(Undefined)]
    ELSE LET eh == EventHandlers(s, event)
             emitted == EmittedEvents(eh.s, event, FALSE)
         IN IF uniqueEvents /\ Len(emitted) # 0
            THEN LET c == Call(eh.s, handler, emitted[Len(emitted)].args)
                 IN [s |-> c.s, ret |-> Plain(c.ret)]
            ELSE RegisterHandler(eh.s, eh.arr, event, handler)

\* handlers.map(handler => handler(...args)): visits the indices below the
\* length the array had when map was called, skipping an index the array no
\* longer has when it is reached.
RECURSIVE Map(_, _, _, _, _, _)
Map(s, arr, args, k, len, acc) ==
    IF k > len THEN [s |-> s, ret |-> acc]
    ELSE IF k <= Len(s.arrays[arr])
    THEN LET c == Call(s, s.arrays[arr][k], args)
         IN Map(c.s, arr, args, k + 1, len, Append(acc, c.ret))
    ELSE Map(s, arr, args, k + 1, len, Append(acc, Hole))

\* emit (the check "if (!handlers)" never holds: _eventHandlers always returns
\* an array)
Emit(s, event, args) ==
    IF uniqueEvents /\ EventWasEmitted(s, event, FALSE)
    THEN [s |-> s, ret |-> <<>>]
    ELSE LET eh == EventHandlers(s, event)
             s1 == PushHistory(eh.s, "emit", event, ArrayRef(eh.arr), args, FALSE)
         IN Map(s1, eh.arr, args, 1, Len(s1.arrays[eh.arr]), <<>>)

\* A variant of clear that also unsubscribes every native adapter from its
\* target.
Clear_Unsubscribes(s, event) ==
    PushHistory([s EXCEPT !.registry = [e \in Events |->
                                             IF event \in {Null, EmptyName, e}
                                             THEN 0 ELSE s.registry[e]],
                             !.listeners = [t \in Targets |-> <<>>]],
                "clear", IF event = EmptyName THEN Null ELSE event, NoHandler, <<>>,
                FALSE)

\* A variant of clear that records the call and leaves the handlers in the map.
Clear_KeepsHandlers(s, event) ==
    PushHistory(s, "clear", IF event = EmptyName THEN Null ELSE event, NoHandler,
                <<>>, FALSE)

\* A variant of clear that also forgets the emissions of the events it clears:
\* it takes their emit Records out of history.
Clear_ResetsLatch(s, event) ==
    LET kept == SelectSeq(s.history,
                          LAMBDA record : ~(/\ record.action = "emit"
                                            /\ event \in {Null, EmptyName, record.event}))
    IN PushHistory([s EXCEPT !.registry = [e \in Events |->
                                             IF event \in {Null, EmptyName, e}
                                             THEN 0 ELSE s.registry[e]],
                             !.history = kept],
                   "clear", IF event = EmptyName THEN Null ELSE event, NoHandler, <<>>,
                   FALSE)

\* A variant of clear that drops the handlers of every event, whatever the
\* argument.
Clear_Everything(s, event) ==
    PushHistory([s EXCEPT !.registry = [e \in Events |-> 0]],
                "clear", event, NoHandler, <<>>, FALSE)

\* clear: "if (event)" takes null (the default) and the empty string as no
\* event.
Clear(s, event) ==
    IF event \notin {Null, EmptyName}
    THEN PushHistory([s EXCEPT !.registry[event] = 0],
                     "clear", event, NoHandler, <<>>, FALSE)
    ELSE PushHistory([s EXCEPT !.registry = [e \in Events |-> 0]],
                     "clear", Null, NoHandler, <<>>, FALSE)

\* A variant of the native adapter whose unique-event check looks only at the
\* emissions recorded by adapters of its own target.
Adapter_LatchPerTarget(s, n, args) ==
    LET event == s.adapters[n].event
        sameTarget == SelectSeq(EmittedEvents(s, event, TRUE),
                                LAMBDA record : s.adapters[record.handler.id].target
                                                    = s.adapters[n].target)
    IN IF uniqueEvents /\ sameTarget # <<>>
       THEN s
       ELSE Call(PushHistory(s, "emit", event, NativeAdapter(n), args, TRUE),
                 s.adapters[n].handler, args).s

\* A variant of the native adapter without the unique-event check.
Adapter_NeverDrops(s, n, args) ==
    Call(PushHistory(s, "emit", s.adapters[n].event, NativeAdapter(n), args, TRUE),
         s.adapters[n].handler, args).s

\* The adapter _handler of the n-th native registration, called by the target
\* with the dispatched Event object as its only argument.
Adapter(s, n, args) ==
    LET event == s.adapters[n].event
    IN IF uniqueEvents /\ EventWasEmitted(s, event, TRUE)
       THEN s
       ELSE Call(PushHistory(s, "emit", event, NativeAdapter(n), args, TRUE),
                 s.adapters[n].handler, args).s

\* A variant of addEventListener that subscribes the adapter on every target.
AddEventListener_Everywhere(ls, target, n) == [t \in Targets |-> Append(ls[t], n)]

\* target.addEventListener(event, _handler): the adapter is appended to the
\* target's listener list.
AddEventListener(ls, target, n) == [ls EXCEPT ![target] = Append(@, n)]

\* A variant of removeEventListener that leaves the adapter subscribed.
RemoveEventListener_Keeps(ls, target, n) == ls

\* target.removeEventListener(event, _handler)
RemoveEventListener(ls, target, n) ==
    [ls EXCEPT ![target] = SelectSeq(@, LAMBDA m : m # n)]

\* The closure _registerNativeHandler returns ("if (target)": a target is an
\* object, which is truthy). It records the call whether or not the adapter
\* was still subscribed.
NativeRemove(s, n) ==
    PushHistory([s EXCEPT !.listeners =
                    RemoveEventListener(@, s.adapters[n].target, n)],
                "unregister", s.adapters[n].event, NativeAdapter(n), <<>>, TRUE)

\* _registerNativeHandler. The registration is recorded with
\* _pushHistory('on', event, _handler, true): true is the fourth argument
\* (args), and native keeps its default.
RegisterNativeHandler(s, target, event, handler) ==
    LET n == Len(s.adapters) + 1
        s1 == [s EXCEPT !.adapters = Append(@, [event |-> event, handler |-> handler,
                                                target |-> target]),
                        !.listeners = AddEventListener(@, target, n)]
    IN [s |-> PushHistory(s1, "on", event, NativeAdapter(n), True, FALSE),
        ret |-> NativeClosure(n, event)]

\* A variant of native that subscribes the handler also when it replays a
\* latched unique event to it.
Native_ReplaysAndSubscribes(s, event, handler, target) ==
    IF ~ValidateEvent(event) THEN [s |-> s, ret |-> Plain(Undefined)]
    ELSE IF handler.kind = "notfn" THEN [s |-> s, ret |-> Plain(Undefined)]
    ELSE LET emitted == EmittedEvents(s, event, TRUE)
             reg == RegisterNativeHandler(s, target, event, handler)
         IN IF uniqueEvents /\ Len(emitted) # 0
            THEN LET c == Call(reg.s, handler, emitted[Len(emitted)].args)
                 IN [s |-> c.s, ret |-> Plain(c.ret)]
            ELSE reg

\* A variant of native that registers whatever it is given.
Native_NoValidation(s, event, handler, target) ==
    RegisterNativeHandler(s, target, event, handler)

\* native
Native(s, event, handler, target) ==
    IF ~ValidateEvent(event) THEN [s |-> s, ret |-> Plain(Undefined)]
    ELSE IF handler.kind = "notfn" THEN [s |-> s, ret |-> Plain(Undefined)]
    ELSE LET emitted == EmittedEvents(s, event, TRUE)
         IN IF uniqueEvents /\ Len(emitted) # 0
            THEN LET c == Call(s, handler, emitted[Len(emitted)].args)
                 IN [s |-> c.s, ret |-> Plain(c.ret)]
            ELSE RegisterNativeHandler(s, target, event, handler)

\* target.dispatchEvent(domEvent) for an Event of type event: the target calls
\* the listeners it had for that type when the dispatch began, in the order
\* they were added, leaving out one that was removed in the meantime.
RECURSIVE DispatchEvent(_, _, _, _, _)
DispatchEvent(s, todo, target, event, domEvent) ==
    IF todo = <<>> THEN s
    ELSE LET n == Head(todo)
         IN IF s.adapters[n].event = event /\ n \in Range(s.listeners[target])
            THEN DispatchEvent(Adapter(s, n, <<domEvent>>), Tail(todo), target,
                               event, domEvent)
            ELSE DispatchEvent(s, Tail(todo), target, event, domEvent)

\* history: Array.from(history), a new array holding the same Record objects.
History(s) == s.history

\* wait: the promise's executor. The handler may run inside on() (a latched
\* unique event), before removeHandler is assigned; the timer is set when
\* options.timeout is a number. options.native is forced to false.
Wait(s, event, timeout, resolveOnTimeout) ==
    LET i == Len(s.waits) + 1
        s1 == [s EXCEPT !.waits = Append(@, [event |-> event,
                                             resolveOnTimeout |-> resolveOnTimeout,
                                             state |-> "pending",
                                             value |-> Undefined,
                                             removeHandler |-> Plain(Undefined),
                                             timer |-> "none"])]
        r == On(s1, event, WaitHandler(i))
    IN [r.s EXCEPT !.waits[i].removeHandler = r.ret,
                   !.waits[i].timer = IF timeout THEN "armed" ELSE "none"]

\* The template string `Timeout while waiting for event "${event}"!`
TimeoutError(event) ==
    CASE event = "e1" -> "Timeout while waiting for event \"e1\"!"
      [] event = "e2" -> "Timeout while waiting for event \"e2\"!"
      [] event = EmptyName -> "Timeout while waiting for event \"\"!"
      [] OTHER -> "Timeout while waiting for event \"42\"!"

\* A variant of the timer's settlement that ignores resolveOnTimeout.
SettleOnTimeout_AlwaysResolves(s, i) == Resolve(s, i, <<Null>>)

\* How the timer callback settles the promise.
SettleOnTimeout(s, i) ==
    IF s.waits[i].resolveOnTimeout
    THEN Resolve(s, i, <<Null>>)
    ELSE Reject(s, i, TimeoutError(s.waits[i].event))

\* A variant of the timer callback that settles the promise and leaves the
\* handler registered.
TimerCallback_KeepsHandler(s, i) ==
    IF s.waits[i].removeHandler.kind = "function"
    THEN SettleOnTimeout(s, i)
    ELSE s

\* The callback given to setTimeout in wait.
TimerCallback(s, i) ==
    LET rh == s.waits[i].removeHandler
    IN IF rh.kind = "function"
       THEN SettleOnTimeout(RemoveHandler(s, rh), i)
       ELSE s

\* ------------------------------------------------------------ observation
\* The handler sequence the map holds for an event (empty when it has no key).
HandlersOf(reg, arrs, event) ==
    IF event \in Events /\ reg[event] # 0 THEN arrs[reg[event]] ELSE <<>>

Pending(ws) == {i \in DOMAIN ws : ws[i].state = "pending"}

\* What on or emit was called with, the handlers it invoked (in order, with
\* their arguments) and what it returned (ret: emit's array, out: on's value),
\* for the properties. The handlers a caller passes leave no other trace.
Observe(op, event, handler, args, s, ret, out) ==
    [op |-> op, event |-> event, handler |-> handler, args |-> args,
     invoked |-> s.invoked, ret |-> ret, out |-> out, n |-> 0, target |-> ""]

\* The observation after any other operation.
Other ==
    [op |-> "other", event |-> "", handler |-> NoHandler, args |-> <<>>,
     invoked |-> <<>>, ret |-> <<>>, out |-> Plain(Undefined), n |-> 0,
     target |-> ""]

\* The observation after a call of the n-th unregister function on() returned.
Unregistered(n) == [Other EXCEPT !.op = "unregister", !.n = n]

\* ------------------------------------------------------------ the actions
\* The calls of on() made: valid ones, and one for each way validation fails.
OnCalls ==
    {<<"e1", UserHandler(1)>>, <<"e1", UserHandler(2)>>, <<"e2", UserHandler(1)>>,
     <<EmptyName, UserHandler(1)>>, <<NonString, UserHandler(1)>>,
     <<"e1", NotAFunction>>}

\* The calls of on() made with a handler that calls back into the registry.
ReentrantOnCalls == {<<"e1", EmittingHandler>>, <<"e1", RegisteringHandler>>}

\* The calls of emit() made, <<event, args>>: one, two and no arguments.
EmitCalls ==
    {<<"e1", <<"a">>>>, <<"e1", <<"a", "b">>>>, <<"e2", <<>>>>}

\* The calls of clear() made: one event, and all (no argument).
ClearCalls == {"e1", Null}

\* The calls of wait() made, <<event, <<timeout is a number, resolveOnTimeout>>>>:
\* the default options, a timeout that resolves, a timeout that rejects; and
\* a wait for an invalid event name.
WaitCalls ==
    {<<"e1", <<FALSE, TRUE>>>>, <<"e1", <<TRUE, TRUE>>>>, <<"e1", <<TRUE, FALSE>>>>,
     <<EmptyName, <<TRUE, TRUE>>>>}

\* The calls of native() made, <<event, handler, target>>: two handlers on one
\* target, one on the other, and one for each way validation fails.
NativeCalls ==
    {<<"e1", UserHandler(1), "t1">>, <<"e1", UserHandler(2), "t1">>,
     <<"e1", UserHandler(1), "t2">>,
     <<EmptyName, UserHandler(1), "t1">>, <<NonString, UserHandler(1), "t1">>,
     <<"e1", NotAFunction, "t1">>}

\* The native dispatches made, <<event type, target, Event object>>.
DispatchCalls == {<<"e1", "t1", "click1">>, <<"e1", "t2", "click2">>}

Commit(s) ==
    /\ registry' = s.registry
    /\ arrays' = s.arrays
    /\ history' = s.history
    /\ waits' = s.waits
    /\ adapters' = s.adapters
    /\ listeners' = s.listeners
    /\ calls' = calls + 1
    /\ UNCHANGED <<uniqueEvents, snapshot>>

Init ==
    /\ uniqueEvents \in BOOLEAN
    /\ registry = [e \in Events |-> 0]
    /\ arrays = <<>>
    /\ history = <<>>
    /\ waits = <<>>
    /\ regs = <<>>
    /\ last = Other
    /\ first = [e \in Events |-> [done |-> FALSE, args |-> <<>>]]
    /\ calls = 0
    /\ adapters = <<>>
    /\ listeners = [t \in Targets |-> <<>>]
    /\ snapshot = [taken |-> FALSE, records |-> <<>>]

\* A caller calls on(event, handler) and keeps the function it returns.
OnAct ==
    /\ calls < MaxCalls
    /\ \E call \in OnCalls :
          LET event == call[1]
              handler == call[2]
              r == On(Data, event, handler)
          IN /\ Commit(r.s)
             /\ regs' = IF r.ret.kind = "function"
                        THEN Append(regs, [c |-> r.ret, called |-> FALSE])
                        ELSE regs
             /\ last' = Observe("on", event, handler, <<>>, r.s, <<>>, r.ret)
             /\ UNCHANGED first

\* A caller calls on(event, handler) with a handler that calls emit or on for
\* the same event when it is invoked.
OnReentrantAct ==
    /\ calls < MaxCalls
    /\ \E call \in ReentrantOnCalls :
          LET event == call[1]
              handler == call[2]
              r == On(Data, event, handler)
          IN /\ Commit(r.s)
             /\ regs' = IF r.ret.kind = "function"
                        THEN Append(regs, [c |-> r.ret, called |-> FALSE])
                        ELSE regs
             /\ last' = Observe("on", event, handler, <<>>, r.s, <<>>, r.ret)
             /\ UNCHANGED first

\* A caller calls an unregister function it got from on(), for the first time
\* or again.
UnregisterAct ==
    /\ calls < MaxCalls
    /\ \E i \in DOMAIN regs :
        LET s == RemoveHandler(Data, regs[i].c)
        IN /\ Commit(s)
           /\ regs' = [regs EXCEPT ![i].called = TRUE]
           /\ last' = Unregistered(i)
           /\ UNCHANGED first

\* A caller calls emit(event, ...args).
EmitAct ==
    /\ calls < MaxCalls
    /\ \E call \in EmitCalls :
          LET event == call[1]
              args == call[2]
              r == Emit(Data, event, args)
          IN /\ Commit(r.s)
             /\ UNCHANGED regs
             /\ first' = IF first[event].done THEN first
                         ELSE [first EXCEPT ![event] = [done |-> TRUE, args |-> args]]
             /\ last' = Observe("emit", event, NoHandler, args, r.s, r.ret,
                                Plain(Undefined))

\* A caller calls wait(event, {timeout, resolveOnTimeout}); timeout is a number
\* or false.
WaitAct ==
    /\ calls < MaxCalls
    /\ \E call \in WaitCalls :
          LET event == call[1]
              s == Wait(Data, event, call[2][1], call[2][2])
          IN /\ Commit(s)
             /\ UNCHANGED <<regs, first>>
             /\ last' = Other

\* The timer of a wait fires: its timeout has elapsed. Timeouts are arbitrary
\* numbers, so armed timers fire in any order.
TimerAct ==
    /\ calls < MaxCalls
    /\ \E i \in DOMAIN waits :
        /\ waits[i].timer = "armed"
        /\ LET s == TimerCallback(Data, i)
           IN /\ Commit([s EXCEPT !.waits[i].timer = "none"])
              /\ UNCHANGED <<regs, first>>
              /\ last' = Other

\* A caller calls clear(event) or clear().
ClearAct ==
    /\ calls < MaxCalls
    /\ \E event \in ClearCalls :
          LET s == Clear(Data, event)
          IN /\ Commit(s)
             /\ UNCHANGED <<regs, first>>
             /\ last' = [Other EXCEPT !.op = "clear", !.event = event]

\* A caller calls native(event, handler, target).
NativeAct ==
    /\ calls < MaxCalls
    /\ \E call \in NativeCalls :
          LET event == call[1]
              handler == call[2]
              r == Native(Data, event, handler, call[3])
          IN /\ Commit(r.s)
             /\ UNCHANGED <<regs, first>>
             /\ last' = [Observe("native", event, handler, <<>>, r.s, <<>>, r.ret)
                            EXCEPT !.target = call[3]]

\* A caller calls an unregister function it got from native(), for the first
\* time or again.
NativeUnregisterAct ==
    /\ calls < MaxCalls
    /\ \E n \in DOMAIN adapters :
          /\ Commit(NativeRemove(Data, n))
          /\ UNCHANGED <<regs, first>>
          /\ last' = [Other EXCEPT !.op = "nativeunregister", !.n = n]

\* An Event of some type is dispatched on a target.
DispatchAct ==
    /\ calls < MaxCalls
    /\ \E call \in DispatchCalls :
          LET event == call[1]
              target == call[2]
              s == DispatchEvent(Data, listeners[target], target, event, call[3])
          IN /\ Commit(s)
             /\ UNCHANGED <<regs, first>>
             /\ last' = [Observe("dispatch", event, NoHandler, <<call[3]>>, s, <<>>,
                                 Plain(Undefined))
                            EXCEPT !.target = target]

\* A caller calls history() and keeps the array it returns. One snapshot is
\* followed, taken at any moment.
HistoryAct ==
    /\ calls < MaxCalls
    /\ ~snapshot.taken
    /\ snapshot' = [taken |-> TRUE, records |-> History(Data)]
    /\ calls' = calls + 1
    /\ last' = Other
    /\ UNCHANGED <<uniqueEvents, registry, arrays, history, waits, regs, first,
                   adapters, listeners>>

Next ==
    \/ OnAct
    \/ UnregisterAct
    \/ EmitAct
    \/ WaitAct
    \/ TimerAct
    \/ ClearAct

Spec == Init /\ [][Next]_vars

\* The standard registry (uniqueEvents: false) and the unique one.
InitStandard == Init /\ ~uniqueEvents
SpecStandard == InitStandard /\ [][Next]_vars
InitUnique == Init /\ uniqueEvents
SpecUnique == InitUnique /\ [][Next]_vars

\* The timeout of a wait elapses and the event loop runs its callback. This is
\* no call of the registry's users: it happens whatever they have done.
TimerElapses ==
    \E i \in DOMAIN waits :
        /\ waits[i].timer = "armed"
        /\ LET s == TimerCallback(Data, i)
           IN /\ Commit([s EXCEPT !.waits[i].timer = "none"])
              /\ UNCHANGED <<regs, first>>
              /\ last' = Other

\* The registry with the passing of time: a callback given to setTimeout is
\* run once its timeout has elapsed (weak fairness of the timers).
NextTimers ==
    \/ OnAct
    \/ UnregisterAct
    \/ EmitAct
    \/ WaitAct
    \/ ClearAct
    \/ TimerElapses
SpecTimers == Init /\ [][NextTimers]_vars /\ WF_vars(TimerElapses)

\* The registry with all the operations that write to history.
NextAll ==
    \/ Next
    \/ NativeAct
    \/ NativeUnregisterAct
    \/ DispatchAct
SpecAll == Init /\ [][NextAll]_vars

\* The unique registry with handlers that call back into it during their
\* delivery. (In the standard registry a handler of E that emits E recurses
\* without end.)
NextReentrant ==
    \/ OnAct
    \/ OnReentrantAct
    \/ EmitAct
    \/ ClearAct
    \/ NativeAct
    \/ DispatchAct
SpecReentrantUnique == InitUnique /\ [][NextReentrant]_vars

\* The registry with a caller that keeps a snapshot of history.
NextSnapshot ==
    \/ Next
    \/ HistoryAct
SpecSnapshot == Init /\ [][NextSnapshot]_vars

\* The registry used for native events, next to on, emit and clear.
NextNative ==
    \/ OnAct
    \/ EmitAct
    \/ NativeAct
    \/ NativeUnregisterAct
    \/ DispatchAct
    \/ ClearAct
SpecNative == Init /\ [][NextNative]_vars
SpecNativeStandard == InitStandard /\ [][NextNative]_vars
SpecNativeUnique == InitUnique /\ [][NextNative]_vars

\* ------------------------------------------------------------ properties
\* The steps of the operations, as seen from a pair of states.
EmitStep == calls' # calls /\ last'.op = "emit"
OnStep == calls' # calls /\ last'.op = "on"
WaitStep == calls' # calls /\ Len(waits') = Len(waits) + 1
TimerStep(i) == calls' # calls /\ waits[i].timer = "armed" /\ waits'[i].timer = "none"
FirstUnregisterStep(i) == calls' # calls /\ ~regs[i].called /\ regs'[i].called

\* The emit step is suppressed by the latch of a unique registry.
Latched(event) == uniqueEvents /\ first[event].done

\* The calls of a handler among the invoked ones.
Invocations(invoked, handler) == SelectSeq(invoked, LAMBDA x : x.handler = handler)

\* The registration regs[i] is the only one on() made for its event and handler.
RegisteredOnce(i) ==
    Cardinality({j \in DOMAIN regs : /\ regs[j].c.event = regs[i].c.event
                                    /\ regs[j].c.handler = regs[i].c.handler}) = 1

\* regs[i] is a registration for the event that was not unregistered and whose
\* event was not cleared since.
StillRegistered(i, event) ==
    /\ regs[i].c.event = event
    /\ ~regs[i].called
    /\ registry[event] = regs[i].c.arr

\* wait i is pending on the event, registered, and the event was not cleared
\* since.
PendingOn(i, event) ==
    /\ waits[i].event = event
    /\ waits[i].state = "pending"
    /\ waits[i].removeHandler.kind = "function"
    /\ registry[event] = waits[i].removeHandler.arr

\* What a handler returns when called.
ReturnOf(handler) == IF handler.kind = "wait" THEN Undefined ELSE HandlerReturn(handler)

\* The emitted arguments that the value of a settled promise carries.
ArgsOf(value) == IF value = Undefined THEN <<>> ELSE <<value>>

\* The value a promise takes from resolve(...args).
Resolved(args) == IF args = <<>> THEN Undefined ELSE Head(args)

UnregisterRecord(c) ==
    [action |-> "unregister", event |-> c.event, handler |-> c.handler,
     args |-> <<>>, native |-> FALSE]

\* C1: in a non-unique registry, a handler registered once with on(E,H), not
\* unregistered, E not cleared, is invoked exactly once by every emit(E,a,b),
\* with exactly the arguments (a,b).
C1_EmitInvokesHandlerOnce ==
    [][(EmitStep /\ ~uniqueEvents) =>
        \A i \in DOMAIN regs :
            (StillRegistered(i, last'.event) /\ RegisteredOnce(i)) =>
                Invocations(last'.invoked, regs[i].c.handler)
                    = <<[handler |-> regs[i].c.handler, args |-> last'.args]>>]_vars

\* C2: emit(E,args) invokes the handlers registered for E in the order of
\* their on() calls and returns their return values in that order, one entry
\* per registered handler; with no registered handler it returns [].
C2_EmitInRegistrationOrder ==
    [][EmitStep =>
        LET before == HandlersOf(registry, arrays, last'.event)
        IN /\ last'.invoked
                = [k \in 1..Len(before) |-> [handler |-> before[k], args |-> last'.args]]
           /\ last'.ret = [k \in 1..Len(before) |-> ReturnOf(before[k])]]_vars

\* C3: after the unregister function returned by on(E,H) was called (H
\* registered once for E), no later emit(E) invokes H; and the first call of
\* the unregister function appends exactly one unregister Record for E.
C3_UnregisteredNotInvoked ==
    [][\A i \in DOMAIN regs :
        /\ (EmitStep /\ regs[i].called /\ regs[i].c.event = last'.event
                /\ RegisteredOnce(i))
              => Invocations(last'.invoked, regs[i].c.handler) = <<>>
        /\ (FirstUnregisterStep(i) /\ RegisteredOnce(i))
              => history' = Append(history, UnregisterRecord(regs[i].c))]_vars

\* C3 witness: an emit of E that invoked a handler, after the only
\* registration of another handler for E was unregistered.
C3_Witness ==
    /\ last.op = "emit"
    /\ last.invoked # <<>>
    /\ \E i \in DOMAIN regs :
          regs[i].called /\ regs[i].c.event = last.event /\ RegisteredOnce(i)

\* C4: in a unique registry, every emit(E) after the first invokes no handler,
\* returns [] and appends no Record; a handler registered with on(E,H) before
\* the first emission (and still registered then) is invoked exactly once over
\* all emit(E) calls, that is, exactly once by the first.
C4_UniqueEmitsOnce ==
    [][(EmitStep /\ uniqueEvents) =>
        IF first[last'.event].done
        THEN last'.invoked = <<>> /\ last'.ret = <<>> /\ history' = history
        ELSE \A i \in DOMAIN regs :
                (StillRegistered(i, last'.event) /\ RegisteredOnce(i)) =>
                    Invocations(last'.invoked, regs[i].c.handler)
                        = <<[handler |-> regs[i].c.handler, args |-> last'.args]>>]_vars

\* C5: in a unique registry, on(E,H) called after emit(E,args) invokes H at
\* once with exactly the args of that (first) emission, returns H's return
\* value and no unregister function, does not add H to E's handler sequence
\* (nor to any handler array) and appends no Record; for every such call.
C5_UniqueReplay ==
    [][(OnStep /\ uniqueEvents /\ last'.event \in Events
            /\ last'.handler.kind = "user" /\ first[last'.event].done) =>
        /\ last'.invoked
              = <<[handler |-> last'.handler, args |-> first[last'.event].args]>>
        /\ last'.out = Plain(HandlerReturn(last'.handler))
        /\ HandlersOf(registry', arrays', last'.event)
              = HandlersOf(registry, arrays, last'.event)
        /\ \A a \in DOMAIN arrays : arrays'[a] = arrays[a]
        /\ history' = history
        /\ regs' = regs]_vars

\* C5 witness: a second handler gets the replay of an emission with two
\* arguments.
C5_Witness ==
    /\ uniqueEvents
    /\ last.op = "on"
    /\ last.handler = UserHandler(2)
    /\ first["e1"].done
    /\ last.invoked = <<[handler |-> UserHandler(2), args |-> <<"a", "b">>]>>

\* C6: if E is emitted while wait(E) is pending (before its timeout elapses),
\* the promise resolves with the emitted arguments, none of them lost.
C6_WaitResolvesWithAllArgs ==
    [][(EmitStep /\ ~Latched(last'.event)) =>
        \A i \in DOMAIN waits :
            PendingOn(i, last'.event) =>
                /\ waits'[i].state = "resolved"
                /\ ArgsOf(waits'[i].value) = last'.args]_vars

\* C7: when the timer of a pending wait(E,{timeout:t}) fires (E a valid event
\* name, no emission has settled the wait), the promise resolves with null if
\* resolveOnTimeout is true and rejects with the string
\* 'Timeout while waiting for event "E"!' if it is false.
C7_TimeoutOutcome ==
    [][\A i \in DOMAIN waits :
        (TimerStep(i) /\ waits[i].state = "pending" /\ ValidateEvent(waits[i].event)) =>
            IF waits[i].resolveOnTimeout
            THEN waits'[i].state = "resolved" /\ waits'[i].value = Null
            ELSE /\ waits'[i].state = "rejected"
                 /\ waits'[i].value = TimeoutError(waits[i].event)]_vars

\* C7 witness: one wait was rejected by its timeout and another resolved with
\* null by its timeout.
C7_Witness ==
    \E i, j \in DOMAIN waits :
        /\ waits[i].state = "rejected"
        /\ waits[i].value = TimeoutError("e1")
        /\ waits[j].state = "resolved"
        /\ waits[j].value = Null

\* C8: every wait settles at most once, with the outcome of whichever of
\* {emission of E, timeout} happens first, and nothing that happens afterwards
\* changes the settled outcome.
C8_SettlesOnceFirstWins ==
    [][\A i \in DOMAIN waits :
        /\ waits[i].state # "pending"
              => waits'[i].state = waits[i].state /\ waits'[i].value = waits[i].value
        /\ (EmitStep /\ ~Latched(last'.event) /\ PendingOn(i, last'.event))
              => waits'[i].state = "resolved" /\ waits'[i].value = Resolved(last'.args)
        /\ (TimerStep(i) /\ PendingOn(i, waits[i].event))
              => IF waits[i].resolveOnTimeout
                 THEN waits'[i].state = "resolved" /\ waits'[i].value = Null
                 ELSE /\ waits'[i].state = "rejected"
                      /\ waits'[i].value = TimeoutError(waits[i].event)]_vars

\* C9: in a unique registry, wait(E) called after E was emitted with args
\* resolves with those args at once, with or without a timeout.
C9_WaitOnLatchedEvent ==
    [][(WaitStep /\ uniqueEvents) =>
        LET i == Len(waits')
            event == waits'[i].event
        IN (event \in Events /\ first[event].done) =>
              /\ waits'[i].state = "resolved"
              /\ ArgsOf(waits'[i].value) = first[event].args]_vars

\* C10: when several wait(E) calls are pending, a single emit(E,v) resolves
\* every one of them with v.
C10_EmitResolvesAllWaits ==
    [][(EmitStep /\ ~Latched(last'.event) /\ Len(last'.args) = 1) =>
        \A i \in DOMAIN waits :
            PendingOn(i, last'.event) =>
                waits'[i].state = "resolved" /\ waits'[i].value = last'.args[1]]_vars

\* ------------------------------------------------------------ C11..C20
ClearStep ==
    /\ calls' # calls
    /\ Len(history') = Len(history) + 1
    /\ history'[Len(history')].action = "clear"

UnregisterStep == calls' # calls /\ last'.op = "unregister"

\* The number of times a handler occurs in a handler sequence.
Occurrences(seq, handler) == Cardinality({k \in DOMAIN seq : seq[k] = handler})

\* C11: clear(E) empties E's handler sequence and leaves the sequence of every
\* other event (and every handler array) as it was; clear() empties the
\* sequence of every event; emit(E) invokes only handlers that are in E's
\* sequence when it is called, so none registered before a clear of E, and it
\* does invoke handlers when the sequence has any (those of an event that was
\* not cleared are still called).
C11_ClearRemovesOnlyOneEvent ==
    [][/\ ClearStep =>
            LET cleared == history'[Len(history')].event
            IN /\ arrays' = arrays
               /\ \A e \in Events :
                    HandlersOf(registry', arrays', e)
                        = IF cleared = Null \/ cleared = e
                          THEN <<>>
                          ELSE HandlersOf(registry, arrays, e)
       /\ EmitStep =>
            LET before == HandlersOf(registry, arrays, last'.event)
            IN /\ \A k \in DOMAIN last'.invoked :
                    last'.invoked[k].handler \in Range(before)
               /\ (before # <<>> /\ ~Latched(last'.event)) =>
                    /\ last'.invoked # <<>>
                    /\ last'.invoked[1] = [handler |-> before[1], args |-> last'.args]]_vars

\* C11 witness: e1 was cleared after a handler was registered for it, and an
\* emit of e2 then invoked e2's handler.
C11_Witness ==
    /\ last.op = "emit"
    /\ last.event = "e2"
    /\ last.invoked = <<[handler |-> UserHandler(1), args |-> <<>>]>>
    /\ \E k \in DOMAIN history : history[k].action = "clear" /\ history[k].event = "e1"
    /\ \E i \in DOMAIN regs : regs[i].c.event = "e1" /\ regs[i].c.arr # registry["e1"]

\* C18: a handler that unregisters itself (or another handler) while emit(E)
\* iterates does not change which handlers that emission invokes: every
\* handler in E's sequence when emit was called is invoked by it, once per
\* occurrence in the sequence.
C18_RemovalDuringEmit ==
    [][(EmitStep /\ ~Latched(last'.event)) =>
        LET before == HandlersOf(registry, arrays, last'.event)
        IN \A h \in Range(before) :
              Len(Invocations(last'.invoked, h)) = Occurrences(before, h)]_vars

\* C19: calling an unregister function returned by on(E,H) a second time
\* changes neither a handler sequence nor history, also when the same H was
\* registered for E more than once.
C19_SecondUnregisterIsNoOp ==
    [][(UnregisterStep /\ regs[last'.n].called) =>
        /\ arrays' = arrays
        /\ registry' = registry
        /\ history' = history]_vars

\* C20: if E is emitted while wait(E,{timeout:t}) is pending, the wait's timer
\* is cancelled, so that its callback never runs: no timer of the wait is
\* left armed by an emission that settles it.
C20_EmitCancelsTimer ==
    [][EmitStep =>
        \A i \in DOMAIN waits :
            (PendingOn(i, last'.event) /\ waits'[i].state = "resolved")
                => waits'[i].timer # "armed"]_vars

\* What a caller reads in the Records of a snapshot: the fields, and for a
\* field that holds an array the elements the array has.
Contents(records, arrs) ==
    [k \in DOMAIN records |->
        IF records[k].handler.kind = "array"
        THEN [records[k] EXCEPT !.handler = arrs[records[k].handler.id]]
        ELSE records[k]]

\* C12: history() returns the Records in the order of the operations, as a
\* snapshot: it equals the log at the moment of the call, and no later
\* operation changes the length, the order or the content of the fields of
\* the Records of a snapshot a caller holds.
C12_HistorySnapshot ==
    [][/\ (~snapshot.taken /\ snapshot'.taken) => snapshot'.records = history
       /\ (snapshot.taken /\ calls' # calls) =>
            /\ snapshot'.records = snapshot.records
            /\ Contents(snapshot'.records, arrays') = Contents(snapshot.records, arrays)]_vars

DispatchStep == calls' # calls /\ last'.op = "dispatch"
NativeStep == calls' # calls /\ last'.op = "native"
NativeUnregisterStep == calls' # calls /\ last'.op = "nativeunregister"

\* The adapters subscribed on a target for an event type, in subscription
\* order, and the calls of their handlers a dispatch with args makes when it
\* reaches each of them.
Subscribed(ls, ads, target, event) ==
    SelectSeq(ls[target], LAMBDA n : ads[n].event = event)
Deliveries(subs, ads, args) ==
    [k \in DOMAIN subs |-> [handler |-> ads[subs[k]].handler, args |-> args]]

\* The native registrations made for an event on a target whose unregister
\* function has not removed them, in registration order.
RegisteredOn(ls, ads, target, event) ==
    SelectSeq([n \in 1..Len(ads) |-> n],
              LAMBDA n : /\ ads[n].target = target
                         /\ ads[n].event = event
                         /\ n \in Range(ls[target]))

\* C13: in the standard registry, a dispatch of E on a target invokes the
\* handlers registered with native(E,H,target) on that target (once per
\* registration, with the Event object) and no handler registered on another
\* target only.
C13_NativeDispatchOnTarget ==
    [][DispatchStep =>
        last'.invoked = Deliveries(RegisteredOn(listeners, adapters, last'.target,
                                                last'.event),
                                   adapters, last'.args)]_vars

\* C13 witness: a dispatch on t2 invoked the handler registered on t2 while
\* another handler is subscribed on t1.
C13_Witness ==
    /\ last.op = "dispatch"
    /\ last.target = "t2"
    /\ last.invoked = <<[handler |-> UserHandler(1), args |-> <<"click2">>]>>
    /\ \E n \in Range(listeners["t1"]) :
          adapters[n].handler = UserHandler(2) /\ adapters[n].target = "t1"

\* C14: in a unique registry, once an emit Record tagged native exists for E a
\* dispatch of E invokes no handler and appends nothing to history, and the
\* dispatch before that invokes a handler at most once; so a handler
\* registered with native(E,H) is invoked at most once over all dispatches.
C14_UniqueNativeAtMostOnce ==
    [][DispatchStep =>
        /\ EventWasEmitted(Data, last'.event, TRUE) =>
              /\ last'.invoked = <<>>
              /\ history' = history
        /\ \A h \in UserHandlers : Len(Invocations(last'.invoked, h)) <= 1]_vars

\* C14 witness: a dispatch on a target with a subscribed adapter invoked
\* nothing, the native channel of the event being latched.
C14_Witness ==
    /\ uniqueEvents
    /\ last.op = "dispatch"
    /\ last.invoked = <<>>
    /\ Subscribed(listeners, adapters, last.target, last.event) # <<>>
    /\ EventWasEmitted(Data, last.event, TRUE)

\* C15: in a unique registry, the first native dispatch of E delivers its
\* arguments to every handler registered with native(E, ...) on the
\* dispatched target before it, each invoked once, and a handler registered
\* with native(E, ...) afterwards is invoked with those arguments.
C15_UniqueNativeDelivery ==
    [][/\ (DispatchStep /\ ~EventWasEmitted(Data, last'.event, TRUE)) =>
            last'.invoked = Deliveries(Subscribed(listeners, adapters, last'.target,
                                                  last'.event),
                                       adapters, last'.args)
       /\ (NativeStep /\ last'.event \in Events /\ last'.handler \in UserHandlers
                      /\ EventWasEmitted(Data, last'.event, TRUE)) =>
            last'.invoked =
                <<[handler |-> last'.handler,
                   args |-> EmittedEvents(Data, last'.event, TRUE)[1].args]>>]_vars

\* C16: the unregister function native(E,H,target) returned unsubscribes the
\* adapter and appends the Record {unregister, E, adapter, native}; a later
\* dispatch of E on target appends no emit Record of an unsubscribed adapter
\* and invokes only handlers of adapters still subscribed.
C16_NativeUnregister ==
    [][/\ NativeUnregisterStep =>
            LET n == last'.n
            IN /\ n \notin Range(listeners'[adapters[n].target])
               /\ \A t \in Targets :
                    listeners'[t] = SelectSeq(listeners[t], LAMBDA m : m # n)
               /\ history' = Append(history,
                                    [action |-> "unregister", event |-> adapters[n].event,
                                     handler |-> NativeAdapter(n), args |-> <<>>,
                                     native |-> TRUE])
       /\ DispatchStep =>
            LET subs == Subscribed(listeners, adapters, last'.target, last'.event)
            IN /\ \A k \in (Len(history) + 1)..Len(history') :
                    /\ history'[k].action = "emit"
                    /\ history'[k].handler.kind = "native"
                    /\ history'[k].handler.id \in Range(subs)
               /\ \A k \in DOMAIN last'.invoked :
                    \E n \in Range(subs) :
                        adapters[n].handler = last'.invoked[k].handler]_vars

\* C16 witness: a dispatch on a target where an adapter for the event was
\* subscribed and then unsubscribed did not invoke that adapter's handler.
C16_Witness ==
    /\ last.op = "dispatch"
    /\ \E n \in DOMAIN adapters :
          /\ adapters[n].target = last.target
          /\ adapters[n].event = last.event
          /\ n \notin Range(listeners[last.target])
          /\ Invocations(last.invoked, adapters[n].handler) = <<>>
          /\ \E k \in DOMAIN history :
                history[k].action = "unregister" /\ history[k].handler = NativeAdapter(n)

\* C17: on and native called with an event name that is not a non-empty
\* string, or with a handler that is not a function, return undefined, call
\* nothing, and leave the handler map, the native subscriptions and history
\* unchanged.
C17_InvalidRegistration ==
    [][((OnStep \/ NativeStep)
            /\ (last'.event \notin Events \/ last'.handler.kind = "notfn")) =>
        /\ last'.out = Plain(Undefined)
        /\ last'.invoked = <<>>
        /\ registry' = registry
        /\ arrays' = arrays
        /\ adapters' = adapters
        /\ listeners' = listeners
        /\ history' = history]_vars

\* C17 witness: native was called with a handler that is not a function on a
\* registry that has handlers, subscriptions and history.
C17_Witness ==
    /\ last.op = "native"
    /\ last.handler = NotAFunction
    /\ history # <<>>
    /\ adapters # <<>>
    /\ \E e \in Events : HandlersOf(registry, arrays, e) # <<>>

\* ------------------------------------------------------------ C21..C30
\* C21: when the timer of a pending wait(E) fires before any emission, the
\* wait's handler is removed from E's handler sequence and exactly one
\* unregister Record is appended; a later emit(E) does not invoke the handler
\* of a settled wait and returns no entry for it (one entry per handler of
\* the sequence, which does not hold it).
C21_TimeoutRemovesHandler ==
    [][\A i \in DOMAIN waits :
        /\ (TimerStep(i) /\ waits[i].state = "pending"
                /\ waits[i].removeHandler.kind = "function") =>
              /\ history' = Append(history,
                                   [action |-> "unregister", event |-> waits[i].event,
                                    handler |-> WaitHandler(i), args |-> <<>>,
                                    native |-> FALSE])
              /\ \A a \in DOMAIN arrays' : WaitHandler(i) \notin Range(arrays'[a])
        /\ (EmitStep /\ waits[i].state # "pending") =>
              LET before == HandlersOf(registry, arrays, last'.event)
              IN /\ WaitHandler(i) \notin Range(before)
                 /\ Invocations(last'.invoked, WaitHandler(i)) = <<>>
                 /\ Len(last'.ret) <= Len(before)]_vars

\* C21 witness: a wait was settled by its timeout, and an emit of its event
\* made later invoked another handler.
C21_Witness ==
    /\ last.op = "emit"
    /\ last.invoked # <<>>
    /\ \E i \in DOMAIN waits :
          /\ waits[i].event = last.event
          /\ waits[i].state = "resolved"
          /\ waits[i].value = Null
          /\ \E k \in DOMAIN history :
                history[k].action = "unregister" /\ history[k].handler = WaitHandler(i)

\* C22: every wait(event, {timeout: t}) with a numeric timeout eventually
\* settles (resolved or rejected) once t has elapsed, for every value of
\* event and whatever else is done on the registry meanwhile.
C22_TimeoutWaitSettles ==
    \A i \in 1..MaxCalls :
        [](( i \in DOMAIN waits /\ waits[i].timer = "armed")
            => <>(i \in DOMAIN waits /\ waits[i].state # "pending"))

\* A handler was registered for the event at some time: history holds the
\* Record of an on() for it.
EverRegistered(event) ==
    \E k \in DOMAIN history :
        /\ history[k].action = "on"
        /\ history[k].event = event
        /\ history[k].handler.kind \in {"user", "wait"}

EmitRecord(event, arr, args) ==
    [action |-> "emit", event |-> event, handler |-> ArrayRef(arr), args |-> args,
     native |-> FALSE]

\* C23: emit(E) on a registry in which no handler was ever registered for E
\* returns an empty array and appends no emit Record to history, whereas
\* emit(E) after handlers were registered for E and all removed appends an
\* emit Record.
C23_EmitWithoutHandlers ==
    [][(EmitStep /\ ~Latched(last'.event)) =>
        /\ ~EverRegistered(last'.event) =>
              /\ last'.ret = <<>>
              /\ history' = history
        /\ (EverRegistered(last'.event)
                /\ HandlersOf(registry, arrays, last'.event) = <<>>) =>
              /\ last'.ret = <<>>
              /\ Len(history') = Len(history) + 1
              /\ history'[Len(history')]
                    = EmitRecord(last'.event, registry'[last'.event], last'.args)]_vars

\* The emit Records of a channel of an event in a history.
EmittedIn(h, event, native) == EmittedEvents([history |-> h], event, native)

\* C24: in a unique registry, clear(E) and clear() do not reset the latch:
\* a clear leaves the recorded emissions of every event as they were, and,
\* clears or not, once emit(E,args) was made a further emit(E) invokes
\* nothing, returns [] and records nothing, and on(E,H) invokes H immediately
\* with args and returns what H returns.
C24_ClearKeepsLatch ==
    [][/\ ClearStep =>
            \A e \in Events : EmittedIn(history', e, FALSE) = EmittedIn(history, e, FALSE)
       /\ (EmitStep /\ first[last'.event].done) =>
            /\ last'.invoked = <<>>
            /\ last'.ret = <<>>
            /\ history' = history
       /\ (OnStep /\ last'.event \in Events /\ last'.handler \in UserHandlers
                  /\ first[last'.event].done) =>
            /\ last'.invoked = <<[handler |-> last'.handler,
                                  args |-> first[last'.event].args]>>
            /\ last'.out = Plain(HandlerReturn(last'.handler))
            /\ history' = history]_vars

\* C24 witness: e1 was emitted, a clear followed, and an on(e1,H) made after
\* it invoked H with the emitted arguments.
C24_Witness ==
    /\ uniqueEvents
    /\ last.op = "on"
    /\ last.event = "e1"
    /\ last.invoked = <<[handler |-> last.handler, args |-> first["e1"].args]>>
    /\ \E k, j \in DOMAIN history :
          /\ k < j
          /\ IsEmit(history[k], "e1", FALSE)
          /\ history[j].action = "clear"

ClearCallStep == calls' # calls /\ last'.op = "clear"

\* C25: history is append-only: after any operation (on, native, unregister,
\* emit, native dispatch, wait, timer firing, clear) the previous history is
\* a prefix of the new one; clear(E) and clear() each append exactly one
\* clear Record and remove none.
C25_HistoryAppendOnly ==
    [][/\ calls' # calls =>
            /\ Len(history') >= Len(history)
            /\ SubSeq(history', 1, Len(history)) = history
       /\ ClearCallStep =>
            history' = Append(history,
                              [action |-> "clear", event |-> last'.event,
                               handler |-> NoHandler, args |-> <<>>,
                               native |-> FALSE])]_vars

\* C25 witness: history holds Records of the registry's own and of the native
\* operations, and a clear Record after them.
C25_Witness ==
    /\ Len(history) >= 3
    /\ history[Len(history)].action = "clear"
    /\ \E k \in DOMAIN history : history[k].native
    /\ \E k \in DOMAIN history : history[k].action = "emit" /\ ~history[k].native

\* C26: in a unique registry, the first native dispatch of E that reaches an
\* adapter is recorded with its arguments; native(E,H) called after that
\* invokes H immediately with those arguments, returns what H returns and
\* subscribes no adapter (targets' listeners, adapters and history stay as
\* they were); and a later dispatch of E invokes no handler.
C26_UniqueNativeReplay ==
    [][/\ (DispatchStep /\ ~EventWasEmitted(Data, last'.event, TRUE)
              /\ RegisteredOn(listeners, adapters, last'.target, last'.event) # <<>>) =>
            LET emitted == EmittedIn(history', last'.event, TRUE)
            IN /\ Len(emitted) = 1
               /\ emitted[1].args = last'.args
       /\ (NativeStep /\ last'.event \in Events /\ last'.handler \in UserHandlers
              /\ EventWasEmitted(Data, last'.event, TRUE)) =>
            /\ last'.invoked =
                  <<[handler |-> last'.handler,
                     args |-> EmittedIn(history, last'.event, TRUE)[1].args]>>
            /\ last'.out = Plain(HandlerReturn(last'.handler))
            /\ listeners' = listeners
            /\ adapters' = adapters
            /\ history' = history
       /\ (DispatchStep /\ EventWasEmitted(Data, last'.event, TRUE)) =>
            last'.invoked = <<>>]_vars

\* C26 witness: native(e1,H,t2) was called after the dispatch of click1 on t1
\* was recorded; H was invoked with click1 and t2 has no listener.
C26_Witness ==
    /\ uniqueEvents
    /\ last.op = "native"
    /\ last.target = "t2"
    /\ last.invoked = <<[handler |-> last.handler, args |-> <<"click1">>]>>
    /\ listeners["t2"] = <<>>

\* C27: the native and the non-native channel of an event name are
\* independent. emit(E) invokes only handlers of E's handler sequence, which
\* native() never changes; a dispatch of E invokes only handlers of adapters
\* registered on the target, which on() never changes. emit(E) adds no native
\* emit Record and a dispatch adds no non-native one; in a unique registry an
\* emit(E) not yet made is carried out and an on(E,H) before it registers H,
\* whatever was dispatched, and the first dispatch of E that reaches an
\* adapter invokes its handler, whatever was emitted.
C27_ChannelsIndependent ==
    [][/\ EmitStep =>
            LET before == HandlersOf(registry, arrays, last'.event)
            IN /\ \A k \in DOMAIN last'.invoked :
                    last'.invoked[k].handler \in Range(before)
               /\ adapters' = adapters /\ listeners' = listeners
               /\ \A e \in Events :
                    EmittedIn(history', e, TRUE) = EmittedIn(history, e, TRUE)
               /\ ~EventWasEmitted(Data, last'.event, FALSE) =>
                    /\ Len(EmittedIn(history', last'.event, FALSE))
                          = Len(EmittedIn(history, last'.event, FALSE)) + 1
                    /\ before # <<>> =>
                          /\ last'.invoked # <<>>
                          /\ last'.invoked[1].handler = before[1]
       /\ DispatchStep =>
            LET subs == RegisteredOn(listeners, adapters, last'.target, last'.event)
            IN /\ \A k \in DOMAIN last'.invoked :
                    \E n \in Range(subs) :
                        adapters[n].handler = last'.invoked[k].handler
               /\ arrays' = arrays /\ registry' = registry
               /\ \A e \in Events :
                    EmittedIn(history', e, FALSE) = EmittedIn(history, e, FALSE)
               /\ (~EventWasEmitted(Data, last'.event, TRUE) /\ subs # <<>>) =>
                    /\ last'.invoked # <<>>
                    /\ last'.invoked[1].handler = adapters[subs[1]].handler
       /\ NativeStep => arrays' = arrays /\ registry' = registry
       /\ OnStep => adapters' = adapters /\ listeners' = listeners
       /\ (OnStep /\ last'.event \in Events /\ last'.handler \in UserHandlers
              /\ ~EventWasEmitted(Data, last'.event, FALSE)) =>
            /\ last'.invoked = <<>>
            /\ last'.out.kind = "function"
       /\ (NativeStep /\ last'.event \in Events /\ last'.handler \in UserHandlers
              /\ ~EventWasEmitted(Data, last'.event, TRUE)) =>
            /\ last'.invoked = <<>>
            /\ last'.out.kind = "function"]_vars

\* C27 witness: in a unique registry e1 was emitted, and a dispatch of e1 made
\* after that invoked the handler registered with native.
C27_Witness ==
    /\ uniqueEvents
    /\ last.op = "dispatch"
    /\ last.invoked # <<>>
    /\ \E k, j \in DOMAIN history :
          /\ k < j
          /\ IsEmit(history[k], last.event, FALSE)
          /\ IsEmit(history[j], last.event, TRUE)

\* C28: every Record in history is well-formed: its args field is an array,
\* empty unless the action is emit, and its native flag is true exactly for
\* the Records produced through native() (registration, native emission,
\* unregistration: those whose handler is a native adapter).
C28_RecordsWellFormed ==
    \A k \in DOMAIN history :
        /\ history[k].args # True
        /\ history[k].action # "emit" => history[k].args = <<>>
        /\ history[k].native = (history[k].handler.kind = "native")

\* C29: in a unique registry, in every reachable state history holds at most
\* one emit Record per (event name, native flag) pair, also when a handler
\* calls emit or on for the same event during its delivery.
C29_OneEmitRecordPerChannel ==
    uniqueEvents =>
        \A e \in Events : \A native \in BOOLEAN :
            Len(EmittedIn(history, e, native)) <= 1

\* C29 witness: an emit of e1 invoked a handler that called emit for e1 and a
\* handler that called on for e1 (which replayed the event to H1).
C29_Witness ==
    /\ uniqueEvents
    /\ last.op = "emit"
    /\ last.event = "e1"
    /\ \E k \in DOMAIN last.invoked : last.invoked[k].handler = EmittingHandler
    /\ \E k \in DOMAIN last.invoked :
          /\ k > 1
          /\ last.invoked[k - 1].handler = RegisteringHandler
          /\ last.invoked[k].handler = UserHandler(1)
    /\ Len(EmittedIn(history, "e1", FALSE)) = 1

\* The handler of wait i was registered and its event was cleared after that,
\* by clear(E) or clear().
ClearedSince(i) ==
    \E k, j \in DOMAIN history :
        /\ k < j
        /\ history[k].action = "on"
        /\ history[k].handler = WaitHandler(i)
        /\ history[j].action = "clear"
        /\ history[j].event \in {waits[i].event, Null}

\* C30: a wait(E) that is pending when clear(E) or clear() is called is never
\* resolved by a later emit(E), which does not invoke its handler: the only
\* step that settles it is the firing of its own timer, so without a timeout
\* it stays pending.
C30_ClearedWaitNeverResolved ==
    [][\A i \in DOMAIN waits :
        (waits[i].state = "pending" /\ ClearedSince(i)) =>
            /\ waits'[i].state # "pending" => TimerStep(i)
            /\ waits[i].timer = "none" => waits'[i].state = "pending"
            /\ EmitStep => Invocations(last'.invoked, WaitHandler(i)) = <<>>]_vars

\* C30 witness: e1 was emitted after a clear that followed wait(e1), and the
\* wait is pending.
C30_Witness ==
    /\ last.op = "emit"
    /\ \E i \in DOMAIN waits :
          /\ waits[i].event = last.event
          /\ waits[i].state = "pending"
          /\ ClearedSince(i)

\* ------------------------------------------------------------ C31..C32
\* C31: clear(E) and clear() do not touch native subscriptions: a clear leaves
\* the adapters, the targets' listeners and the recorded native emissions as
\* they were, and a dispatch of E on a target, after a clear as before it,
\* invokes the handlers registered with native(E,H,target) (in a unique
\* registry: the first of them, on the first dispatch).
C31_ClearKeepsNative ==
    [][/\ ClearCallStep =>
            /\ adapters' = adapters
            /\ listeners' = listeners
            /\ \A e \in Events :
                  EmittedIn(history', e, TRUE) = EmittedIn(history, e, TRUE)
       /\ DispatchStep =>
            LET subs == RegisteredOn(listeners, adapters, last'.target, last'.event)
            IN IF ~uniqueEvents
               THEN last'.invoked = Deliveries(subs, adapters, last'.args)
               ELSE (~EventWasEmitted(Data, last'.event, TRUE) /\ subs # <<>>) =>
                        last'.invoked = <<[handler |-> adapters[subs[1]].handler,
                                           args |-> last'.args]>>]_vars

\* C31 witness: a handler was registered with native, a clear followed, and a
\* dispatch made after the clear invoked the handler.
C31_Witness ==
    /\ last.op = "dispatch"
    /\ last.invoked # <<>>
    /\ \E k, j, l \in DOMAIN history :
          /\ k < j /\ j < l
          /\ history[k].action = "on" /\ history[k].handler.kind = "native"
          /\ history[j].action = "clear"
          /\ IsEmit(history[l], last.event, TRUE)
          /\ history[l].handler = history[k].handler

\* The target of the adapter that recorded the native emission of an event.
RecordedTarget(event) == adapters[EmittedIn(history, event, TRUE)[1].handler.id].target

\* C32: in a unique registry the native latch is keyed by event name only:
\* once a dispatch of E on one target is recorded, a dispatch of E on another
\* target with adapters registered for E invokes nothing and records nothing,
\* and native(E,H,otherTarget) invokes H with the recorded arguments and
\* subscribes nothing.
C32_NativeLatchPerEvent ==
    [][/\ (DispatchStep /\ EventWasEmitted(Data, last'.event, TRUE)
              /\ last'.target # RecordedTarget(last'.event)) =>
            /\ last'.invoked = <<>>
            /\ history' = history
       /\ (NativeStep /\ last'.event \in Events /\ last'.handler \in UserHandlers
              /\ EventWasEmitted(Data, last'.event, TRUE)
              /\ last'.target # RecordedTarget(last'.event)) =>
            /\ last'.invoked =
                  <<[handler |-> last'.handler,
                     args |-> EmittedIn(history, last'.event, TRUE)[1].args]>>
            /\ adapters' = adapters
            /\ listeners' = listeners
            /\ history' = history]_vars

\* C32 witness: e1 was dispatched on t1 and recorded, and a dispatch of e1 on
\* t2, where an adapter is subscribed for e1, invoked nothing.
C32_Witness ==
    /\ uniqueEvents
    /\ last.op = "dispatch"
    /\ last.target = "t2"
    /\ last.invoked = <<>>
    /\ RegisteredOn(listeners, adapters, "t2", last.event) # <<>>
    /\ EventWasEmitted(Data, last.event, TRUE)
    /\ RecordedTarget(last.event) = "t1"

====
